---- MODULE Spec2Model ----
(***************************************************************************)
(* The Ollama client of my-agent-app: callOllama and its stream consumer   *)
(* handleStreamingResponse (src/my-agent-app/src/utils/logger.js, lines    *)
(* 148-305), as a state machine of one call.                               *)
(*                                                                         *)
(* Granularity.  The response body is a sequence of tokens: "{", "}", a    *)
(* key/value pair, a newline, a blank, or a piece of text that is no JSON. *)
(* A transport chunk is any non-empty prefix of what is still to come, so  *)
(* a chunk may end between any two tokens, in the middle of a line too.    *)
(* Tokens are whole code points: TextDecoder in streaming mode (line 273)  *)
(* hands the code points of a chunk through.  A text is a sequence of      *)
(* characters, an error message a sequence of words.  Wall-clock time is   *)
(* one event, the moment `timeout` ms have passed since the request; the   *)
(* duration field of a result is left out.                                 *)
(***************************************************************************)
EXTENDS Integers, Sequences, FiniteSets, TLC

\* The longest NDJSON document the server sends, in lines.
MaxRecords == 3

\* const DEFAULT_TIMEOUT = 60000
DEFAULT_TIMEOUT == 60000

VARIABLES
  useMock,          \* options.useMock
  stream,           \* options.stream
  hasOnChunk,       \* options.onChunk is a function (not null)
  onChunkThrows,    \* that function throws when it is invoked
  pc,               \* where callOllama stands: init, fetching, reading, json, done
  timer,            \* the setTimeout of line 174: none, armed, cleared, fired
  aborted,          \* controller.signal.aborted
  elapsed,          \* `timeout` ms have passed since the request was issued
  posts,            \* number of POST /api/generate requests issued
  status,           \* response.status, 0 while there is no response
  bodyUsed,         \* Response.bodyUsed: getReader() or json() was called
  document,         \* the NDJSON document the server sends (lines)
  wire,             \* the tokens of the body not yet delivered by the transport
  fullResponse,     \* handleStreamingResponse: let fullResponse
  promptTokens,     \* handleStreamingResponse: let promptTokens
  generatedTokens,  \* handleStreamingResponse: let generatedTokens
  calls,            \* the arguments of the onChunk invocations, in order
  seen,             \* the records JSON.parse returned, in order
  result,           \* <<>> until callOllama returns, then <<its result>>
  \* Two overlapping calls of callOllama (SpecPair):
  invocation,       \* per call: where it stands, its timer, its body, its result
  bindings,         \* per set of bindings: the locals of handleStreamingResponse
  alone,            \* per call: the locals of the same call, fed the same chunks, alone
  \* The page: App, useOllama and GoalInput (SpecUI):
  mountedRef,       \* useOllama: mountedRef.current
  isLoading,        \* useOllama: const [isLoading, setIsLoading]
  isChecking,       \* useOllama: const [isChecking, setIsChecking]
  isConnected,      \* useOllama: const [isConnected, setIsConnected]
  useMockMode,      \* App: const [useMockMode, setUseMockMode]
  goal,             \* GoalInput: const [goal, setGoal], as a text
  streamingCode,    \* useOllama: const [streamingCode, setStreamingCode]
  inFlight,         \* the generate and sendPrompt calls started and not completed
  error,            \* useOllama: const [error, setError]
  lastResponse,     \* useOllama: const [lastResponse, setLastResponse]
  lastCode,         \* useOllama: const [lastCode, setLastCode]
  lastDuration,     \* useOllama: const [lastDuration, setLastDuration]
  tokens,           \* useOllama: const [tokens, setTokens]
  checks,           \* the checkConnection calls awaiting isOllamaAvailable()
  returns,          \* what the last generate or sendPrompt call to return returned
  \* extractCode on the growing response of one request (SpecExtract):
  accumulatedResponse,  \* useOllama.generate: let accumulatedResponse
  code,             \* useOllama.generate, onChunk: const code
  delivered,        \* the number of chunks appended to accumulatedResponse
  \* The connectivity probe isOllamaAvailable (SpecProbe):
  probe             \* where the probe stands, its deadline, its response, its result

\* The state of the one call of Spec, of the two calls of SpecPair, of the page.
callVars == <<useMock, stream, hasOnChunk, onChunkThrows, pc, timer, aborted, elapsed,
              posts, status, bodyUsed, document, wire, fullResponse, promptTokens,
              generatedTokens, calls, seen, result>>
pairVars == <<invocation, bindings, alone>>
hookOutputs == <<error, lastResponse, lastCode, lastDuration, tokens>>
uiVars == <<mountedRef, isLoading, isChecking, isConnected, useMockMode, goal,
            streamingCode, inFlight, hookOutputs, checks, returns>>
parserVars == <<accumulatedResponse, code, delivered>>
probeVars == <<probe>>
elsewhere == <<pairVars, uiVars, parserVars, probeVars>>
exceptPair == <<callVars, uiVars, parserVars, probeVars>>
exceptUI == <<callVars, pairVars, parserVars, probeVars>>

vars == <<callVars, pairVars, uiVars, parserVars, probeVars>>

-----------------------------------------------------------------------------
(* The wire format: tokens, lines, documents.                              *)

Tok(kind) == [t |-> kind, s |-> <<>>, n |-> 0]
LB == Tok("{")
RB == Tok("}")
NL == Tok("nl")
WS == Tok("ws")
JUNK == Tok("junk")
Resp(text) == [t |-> "response", s |-> text, n |-> 0]
Done(b) == [t |-> "done", s |-> <<>>, n |-> IF b THEN 1 ELSE 0]
Pec(k) == [t |-> "prompt_eval_count", s |-> <<>>, n |-> k]
Ec(k) == [t |-> "eval_count", s |-> <<>>, n |-> k]

Keys == {"response", "done", "prompt_eval_count", "eval_count"}

\* One line of the body holding the JSON object with the given key/value pairs.
Obj(fields) == <<LB>> \o fields \o <<RB>>

\* The lines the server may send: a text fragment (with a token count, on a
\* record that is not final), two final records with different counts (the
\* first as Ollama sends it, with an empty fragment; the second with a fragment
\* and no eval_count), a blank line and a line that is no JSON.
FragA == Obj(<<Resp(<<"a">>), Done(FALSE), Pec(3)>>)
Final12 == Obj(<<Resp(<<>>), Done(TRUE), Pec(1), Ec(2)>>)
FinalC == Obj(<<Resp(<<"c">>), Done(TRUE), Pec(2)>>)
BlankLine == <<WS>>
JunkLine == <<JUNK>>

Lines == {FragA, Final12, FinalC, BlankLine, JunkLine}

Docs == UNION {[1..n -> Lines] : n \in 0..MaxRecords}

RECURSIVE Serialize(_)
Serialize(doc) ==
  IF doc = <<>> THEN <<>> ELSE doc[1] \o <<NL>> \o Serialize(Tail(doc))

-----------------------------------------------------------------------------
(* String and JSON primitives used by handleStreamingResponse.             *)

\* chunk.split('\n')
RECURSIVE Split(_)
Split(chunk) ==
  IF \A i \in 1..Len(chunk) : chunk[i] # NL
  THEN <<chunk>>
  ELSE LET i == CHOOSE j \in 1..Len(chunk) :
                  chunk[j] = NL /\ \A k \in 1..(j-1) : chunk[k] # NL
       IN <<SubSeq(chunk, 1, i-1)>> \o Split(SubSeq(chunk, i+1, Len(chunk)))

\* line.trim()
RECURSIVE Trim(_)
Trim(line) ==
  IF line = <<>> THEN <<>>
  ELSE IF line[1] = WS THEN Trim(Tail(line))
  ELSE IF line[Len(line)] = WS THEN Trim(SubSeq(line, 1, Len(line)-1))
  ELSE line

\* .filter(line => line.trim())
RECURSIVE FilterNonBlank(_)
FilterNonBlank(ls) ==
  IF ls = <<>> THEN <<>>
  ELSE (IF Trim(ls[1]) # <<>> THEN <<ls[1]>> ELSE <<>>) \o FilterNonBlank(Tail(ls))

\* JSON.parse(line) succeeds
Parses(line) ==
  LET t == Trim(line) IN
    /\ Len(t) >= 2
    /\ t[1] = LB
    /\ t[Len(t)] = RB
    /\ \A i \in 2..(Len(t)-1) : t[i].t \in Keys \cup {"ws"}

\* JSON.parse(line): the key/value pairs of the object
JSONParse(line) ==
  LET t == Trim(line) IN SelectSeq(SubSeq(t, 2, Len(t)-1), LAMBDA f : f.t \in Keys)

Has(json, key) == \E i \in 1..Len(json) : json[i].t = key

\* json[key], the last pair of that key
Get(json, key) ==
  json[CHOOSE i \in 1..Len(json) :
         json[i].t = key /\ \A j \in (i+1)..Len(json) : json[j].t # key]

\* json.response, truthy
TruthyResponse(json) == Has(json, "response") /\ Get(json, "response").s # <<>>

\* json.done, truthy
TruthyDone(json) == Has(json, "done") /\ Get(json, "done").n = 1

\* json[key] || 0
CountOrZero(json, key) == IF Has(json, key) THEN Get(json, key).n ELSE 0

-----------------------------------------------------------------------------
(* handleStreamingResponse: the body of the read loop.                     *)

\* The locals of handleStreamingResponse before the first read.
InitialConsumer == [full |-> <<>>, pt |-> 0, gt |-> 0, calls |-> <<>>, seen |-> <<>>]

\* A consumer that captures the token counts of every record that carries one.
ProcessLineAnyCounts(st, line, cb) ==
  IF ~Parses(line) THEN st
  ELSE
    LET json == JSONParse(line)
        st1 == IF TruthyResponse(json)
               THEN [st EXCEPT !.full = @ \o Get(json, "response").s,
                               !.calls = IF cb THEN Append(@, Get(json, "response").s)
                                         ELSE @]
               ELSE st
        st2 == IF Has(json, "prompt_eval_count") \/ Has(json, "eval_count")
               THEN [st1 EXCEPT !.pt = CountOrZero(json, "prompt_eval_count"),
                                !.gt = CountOrZero(json, "eval_count")]
               ELSE st1
    IN [st2 EXCEPT !.seen = Append(@, json)]

\* A consumer that hands onChunk the text accumulated so far.
ProcessLineAccumulated(st, line, cb) ==
  IF ~Parses(line) THEN st
  ELSE
    LET json == JSONParse(line)
        st1 == IF TruthyResponse(json)
               THEN [st EXCEPT !.full = @ \o Get(json, "response").s,
                               !.calls = IF cb
                                         THEN Append(@, st.full \o Get(json, "response").s)
                                         ELSE @]
               ELSE st
        st2 == IF TruthyDone(json)
               THEN [st1 EXCEPT !.pt = CountOrZero(json, "prompt_eval_count"),
                                !.gt = CountOrZero(json, "eval_count")]
               ELSE st1
    IN [st2 EXCEPT !.seen = Append(@, json)]

\* One pass of the for loop: try { JSON.parse ... } catch { }.  An onChunk that
\* throws is invoked after fullResponse was extended and ends the try block:
\* the `if (json.done)` of that record is not reached.
ProcessLine(st, line, cb) ==
  IF ~Parses(line) THEN st
  ELSE
    LET json == JSONParse(line)
        st1 == IF TruthyResponse(json)
               THEN [st EXCEPT !.full = @ \o Get(json, "response").s,
                               !.calls = IF cb THEN Append(@, Get(json, "response").s)
                                         ELSE @]
               ELSE st
        thrown == cb /\ onChunkThrows /\ TruthyResponse(json)
        st2 == IF TruthyDone(json) /\ ~thrown
               THEN [st1 EXCEPT !.pt = CountOrZero(json, "prompt_eval_count"),
                                !.gt = CountOrZero(json, "eval_count")]
               ELSE st1
    IN [st2 EXCEPT !.seen = Append(@, json)]

RECURSIVE ProcessLines(_, _, _)
ProcessLines(st, ls, cb) ==
  IF ls = <<>> THEN st
  ELSE ProcessLines(ProcessLine(st, ls[1], cb), Tail(ls), cb)

\* What one chunk does to the locals: split, filter, then the for loop.
ProcessChunk(st, chunk, cb) == ProcessLines(st, FilterNonBlank(Split(chunk)), cb)

-----------------------------------------------------------------------------
(* Results and errors of callOllama.                                       *)

\* A tokens object whose total leaves the prompt out.
TokensWithoutPrompt(p, g) == [prompt |-> p, generated |-> g, total |-> g]

Tokens(p, g) == [prompt |-> p, generated |-> g, total |-> p + g]

\* The object returned at the end of the try block; error null is <<>>.
Success(text, counts) ==
  [success |-> TRUE, response |-> text, error |-> <<>>, tokens |-> counts]

\* A catch block that returns the text accumulated before the failure.
FailureWithPartialText(message) ==
  [success |-> FALSE, response |-> fullResponse, error |-> message, tokens |-> Tokens(0, 0)]

\* A catch block that reports the counts captured before the failure.
FailureWithCounts(message) ==
  [success |-> FALSE, response |-> <<>>, error |-> message,
   tokens |-> Tokens(promptTokens, generatedTokens)]

\* The object returned by the catch block.
Failure(message) ==
  [success |-> FALSE, response |-> <<>>, error |-> message, tokens |-> Tokens(0, 0)]

\* The return value of handleStreamingResponse.
StreamResult(st) == [response |-> st.full, tokens |-> Tokens(st.pt, st.gt)]

\* A branch that reads the two counts from each other's field.
NonStreamTokensSwapped(data) ==
  Tokens(CountOrZero(data, "eval_count"), CountOrZero(data, "prompt_eval_count"))

\* The else branch of `if (stream)`: data is the parsed body.
NonStreamTokens(data) ==
  Tokens(CountOrZero(data, "prompt_eval_count"), CountOrZero(data, "eval_count"))

\* message.includes(word), on messages as sequences of words
Includes(message, word) == \E i \in 1..Len(message) : message[i] = word

TimeoutMessage(timeout) == <<"Request", "timed", "out", "after", ToString(timeout), "ms">>

ConnectMessage ==
  <<"Cannot", "connect", "to", "Ollama.", "Is", "it", "running?", "Try:", "ollama", "serve">>

\* The catch block's choice of errorMessage.
ErrorMessage(err, timeout) ==
  IF err.name = "AbortError" THEN TimeoutMessage(timeout)
  ELSE IF Includes(err.message, "fetch") THEN ConnectMessage
  ELSE err.message

\* What fetch rejects with once the controller has aborted.
AbortError == [name |-> "AbortError", message |-> <<"The", "user", "aborted", "a", "request.">>]

\* What fetch rejects with when the network fails, by browser.
NetworkErrors ==
  { [name |-> "TypeError", message |-> <<"Failed", "to", "fetch">>],
    [name |-> "TypeError",
     message |-> <<"NetworkError", "when", "attempting", "to", "fetch", "resource.">>],
    [name |-> "TypeError", message |-> <<"Load", "failed">>] }

\* What reader.read() rejects with when the connection breaks in the body.
ReadError == [name |-> "TypeError", message |-> <<"network", "error">>]

\* What response.json() rejects with on a body that is no JSON.
SyntaxError == [name |-> "SyntaxError", message |-> <<"Unexpected", "token">>]

\* responseText.length on an undefined responseText.
LengthError ==
  [name |-> "TypeError",
   message |-> <<"Cannot", "read", "properties", "of", "undefined">>]

\* What callOllama returns in non-streaming mode for the parsed body `data`:
\* reading responseText.length throws when the body has no response field.
NonStreamResult(data) ==
  IF Has(data, "response")
  THEN Success(Get(data, "response").s, NonStreamTokens(data))
  ELSE Failure(ErrorMessage(LengthError, DEFAULT_TIMEOUT))

\* The status lines a server may answer with.
Statuses ==
  { [status |-> 200, statusText |-> <<"OK">>],
    [status |-> 404, statusText |-> <<"Not", "Found">>],
    [status |-> 500, statusText |-> <<"Internal", "Server", "Error">>],
    [status |-> 502, statusText |-> <<"upstream", "fetch", "failed">>] }

\* response.ok
Ok(st) == st.status >= 200 /\ st.status <= 299

\* new Error(`Ollama returned HTTP ${response.status}: ${response.statusText}`)
HttpError(st) ==
  [name |-> "Error",
   message |-> <<"Ollama", "returned", "HTTP", ToString(st.status), ":">> \o st.statusText]

\* The bodies a server may answer a non-streaming request with.
JsonBodies ==
  { <<Resp(<<"a">>), Done(TRUE), Pec(1), Ec(2)>>,
    <<Resp(<<"a">>), Done(TRUE)>>,
    <<Resp(<<>>), Done(TRUE), Pec(2)>>,
    <<Done(TRUE), Pec(1), Ec(2)>> }

-----------------------------------------------------------------------------
(* getMockResponse.  A prompt is what the function reads of it: the        *)
(* keywords its lower-cased text includes, and its length.                 *)

Prompts ==
  { [mentions |-> {"add"}, length |-> 14],
    [mentions |-> {"reverse", "sum"}, length |-> 22],
    [mentions |-> {"reverse"}, length |-> 16],
    [mentions |-> {"fibonacci"}, length |-> 9],
    [mentions |-> {}, length |-> 0],
    [mentions |-> {}, length |-> 61] }

\* The if/else chain choosing mockCode: the text and its length in characters.
MockCode(prompt) ==
  IF "add" \in prompt.mentions \/ "sum" \in prompt.mentions
  THEN [text |-> <<"function add(a, b)">>, length |-> 56]
  ELSE IF "reverse" \in prompt.mentions
  THEN [text |-> <<"function reverse(str)">>, length |-> 86]
  ELSE IF "fibonacci" \in prompt.mentions
  THEN [text |-> <<"function fibonacci(n)">>, length |-> 113]
  ELSE [text |-> <<"function solution(input)">>,
        length |-> 124 + (IF prompt.length < 50 THEN prompt.length ELSE 50)]

\* Math.ceil(n / 4)
CeilQuarter(n) == (n + 3) \div 4

GetMockResponse(prompt) ==
  [success |-> TRUE,
   response |-> MockCode(prompt).text,
   error |-> <<>>,
   tokens |-> Tokens(CeilQuarter(prompt.length), CeilQuarter(MockCode(prompt).length))]

-----------------------------------------------------------------------------
(* callOllama as a state machine of one call.                              *)

\* The calls of callOllama that overlap in SpecPair.
Calls == {1, 2}

\* A call that has not been made: no timer, no body, no result.
NotCalled ==
  [pc |-> "init", timer |-> "none", aborted |-> FALSE, document |-> <<>>, wire |-> <<>>,
   result |-> <<>>]

\* generate before the first chunk: accumulatedResponse = '', no code yet.
ParserInit ==
  /\ accumulatedResponse = <<>>
  /\ code = <<>>
  /\ delivered = 0

\* A probe that has not been started.
NotProbed == [pc |-> "init", timedOut |-> FALSE, status |-> 0, result |-> <<>>]

ProbeInit == probe = NotProbed

PairInit ==
  /\ invocation = [c \in Calls |-> NotCalled]
  /\ bindings = [c \in Calls |-> InitialConsumer]
  /\ alone = [c \in Calls |-> InitialConsumer]

\* The page after its first render and the mount effect of useOllama
\* (autoCheck: checkConnection has been called and is pending).
PageInit ==
  /\ mountedRef = TRUE
  /\ isLoading = FALSE
  /\ isChecking = TRUE
  /\ isConnected = FALSE
  /\ useMockMode = FALSE
  /\ goal = <<>>
  /\ streamingCode = <<>>
  /\ inFlight = <<>>
  /\ error = <<>>
  /\ lastResponse = <<>>
  /\ lastCode = <<>>
  /\ lastDuration = <<>>
  /\ tokens = [prompt |-> 0, generated |-> 0, total |-> 0]
  /\ checks = 1
  /\ returns = [kind |-> "none", value |-> <<>>]

Init ==
  /\ useMock \in BOOLEAN
  /\ stream \in BOOLEAN
  /\ hasOnChunk \in BOOLEAN
  /\ onChunkThrows \in (IF hasOnChunk THEN BOOLEAN ELSE {FALSE})
  /\ pc = "init"
  /\ timer = "none"
  /\ aborted = FALSE
  /\ elapsed = FALSE
  /\ posts = 0
  /\ status = 0
  /\ bodyUsed = FALSE
  /\ document = <<>>
  /\ wire = <<>>
  /\ fullResponse = InitialConsumer.full
  /\ promptTokens = InitialConsumer.pt
  /\ generatedTokens = InitialConsumer.gt
  /\ calls = InitialConsumer.calls
  /\ seen = InitialConsumer.seen
  /\ result = <<>>
  /\ PairInit
  /\ PageInit
  /\ ParserInit
  /\ ProbeInit

options == <<useMock, stream, hasOnChunk, onChunkThrows>>
consumer == <<fullResponse, promptTokens, generatedTokens, calls, seen>>
body == <<status, bodyUsed, document, wire>>

\* callOllama returns r.
Return(r) ==
  /\ result' = Append(result, r)
  /\ pc' = "done"

\* A catch block that throws the error on: the promise of callOllama rejects.
CatchRethrows(err) ==
  /\ pc' = "rejected"
  /\ result' = result

\* An exception reaches the catch block of callOllama.
Catch(err) == Return(Failure(ErrorMessage(err, DEFAULT_TIMEOUT)))

\* A client that ignores useMock and sends the request.
CallMockOverNetwork ==
  /\ pc = "init"
  /\ useMock
  /\ timer' = "armed"
  /\ posts' = posts + 1
  /\ pc' = "fetching"
  /\ UNCHANGED <<elsewhere, options, aborted, elapsed, body, consumer, result>>

\* if (useMock) return getMockResponse(prompt)
CallMock ==
  /\ pc = "init"
  /\ useMock
  /\ \E prompt \in Prompts : Return(GetMockResponse(prompt))
  /\ UNCHANGED <<elsewhere, options, timer, aborted, elapsed, posts, body, consumer>>

\* The call up to `await fetch(...)`: the timer is set and the POST issued.
IssueRequest ==
  /\ timer' = "armed"
  /\ posts' = posts + 1
  /\ pc' = "fetching"
  /\ UNCHANGED <<elsewhere, options, aborted, elapsed, body, consumer, result>>

Call ==
  /\ pc = "init"
  /\ ~useMock
  /\ IssueRequest

\* `timeout` ms after the request: the timer callback runs unless it was cleared.
\* (Once the call has returned and no timer is pending, nothing is left to time.)
TimeoutElapses ==
  /\ pc \in {"fetching", "reading", "json"} \/ timer = "armed"
  /\ ~elapsed
  /\ elapsed' = TRUE
  /\ IF timer = "armed"
     THEN timer' = "fired" /\ aborted' = TRUE
     ELSE UNCHANGED <<timer, aborted>>
  /\ UNCHANGED <<elsewhere, options, pc, posts, body, consumer, result>>

\* fetch rejects because the controller aborted.
FetchAborted ==
  /\ pc = "fetching"
  /\ aborted
  /\ Catch(AbortError)
  /\ UNCHANGED <<elsewhere, options, timer, aborted, elapsed, posts, body, consumer>>

\* A client that sends the request again when the network fails.
FetchFailsRetry ==
  /\ pc = "fetching"
  /\ ~aborted
  /\ posts < 3
  /\ IssueRequest

\* fetch rejects because the network failed.
FetchFails ==
  /\ pc = "fetching"
  /\ ~aborted
  /\ \E err \in NetworkErrors : Catch(err)
  /\ UNCHANGED <<elsewhere, options, timer, aborted, elapsed, posts, body, consumer>>

\* A client that does not await handleStreamingResponse: callOllama goes on with
\* a promise for streamResult, fails on responseText.length and returns, while
\* the consumer keeps reading.
StartStreamingNoAwait ==
  /\ \E doc \in Docs : document' = doc /\ wire' = Serialize(doc)
  /\ bodyUsed' = TRUE
  /\ pc' = "reading"
  /\ result' = Append(result, Failure(ErrorMessage(LengthError, DEFAULT_TIMEOUT)))
  /\ UNCHANGED consumer

\* handleStreamingResponse up to its first `await reader.read()`.
StartStreaming ==
  /\ \E doc \in Docs : document' = doc /\ wire' = Serialize(doc)
  /\ bodyUsed' = TRUE
  /\ pc' = "reading"
  /\ UNCHANGED <<consumer, result>>

\* The non-streaming branch up to `await response.json()`.
StartJson ==
  /\ bodyUsed' = TRUE
  /\ pc' = "json"
  /\ UNCHANGED <<document, wire, consumer, result>>

\* fetch resolves with the response headers: clearTimeout, then the status check.
FetchResolves ==
  /\ pc = "fetching"
  /\ ~aborted
  /\ timer' = "cleared"
  /\ \E st \in Statuses :
       /\ status' = st.status
       /\ IF ~Ok(st)
          THEN Catch(HttpError(st)) /\ UNCHANGED <<bodyUsed, document, wire, consumer>>
          ELSE IF stream THEN StartStreaming
          ELSE StartJson
  /\ UNCHANGED <<elsewhere, options, aborted, elapsed, posts>>

\* reader.read() resolves with a chunk: one pass of the while loop.
ReadChunk ==
  /\ pc = "reading"
  /\ \E k \in 1..Len(wire) :
       LET st == ProcessChunk([full |-> fullResponse, pt |-> promptTokens,
                               gt |-> generatedTokens, calls |-> calls, seen |-> seen],
                              SubSeq(wire, 1, k), hasOnChunk)
       IN /\ wire' = SubSeq(wire, k + 1, Len(wire))
          /\ fullResponse' = st.full
          /\ promptTokens' = st.pt
          /\ generatedTokens' = st.gt
          /\ calls' = st.calls
          /\ seen' = st.seen
  /\ UNCHANGED <<elsewhere, options, pc, timer, aborted, elapsed, posts, status, bodyUsed,
                 document, result>>

\* reader.read() resolves with done: the loop breaks and callOllama returns.
ReadEnd ==
  /\ pc = "reading"
  /\ wire = <<>>
  /\ LET r == StreamResult([full |-> fullResponse, pt |-> promptTokens,
                            gt |-> generatedTokens])
     IN Return(Success(r.response, r.tokens))
  /\ UNCHANGED <<elsewhere, options, timer, aborted, elapsed, posts, body, consumer>>

\* reader.read() rejects: the connection broke in the middle of the body.
\* Nothing more of the body arrives.
ReadFails ==
  /\ pc = "reading"
  /\ wire' = <<>>
  /\ Catch(ReadError)
  /\ UNCHANGED <<elsewhere, options, timer, aborted, elapsed, posts, status, bodyUsed,
                 document, consumer>>

\* response.json() resolves with the parsed body (the document is that object).
JsonResolves ==
  /\ pc = "json"
  /\ \E data \in JsonBodies :
       /\ document' = <<Obj(data)>>
       /\ Return(NonStreamResult(data))
  /\ UNCHANGED <<elsewhere, options, timer, aborted, elapsed, posts, status, bodyUsed, wire,
                 consumer>>

\* response.json() rejects: the body is no JSON.
JsonRejects ==
  /\ pc = "json"
  /\ Catch(SyntaxError)
  /\ UNCHANGED <<elsewhere, options, timer, aborted, elapsed, posts, body, consumer>>

Next ==
  \/ CallMock
  \/ Call
  \/ TimeoutElapses
  \/ FetchAborted
  \/ FetchFails
  \/ FetchResolves
  \/ ReadChunk
  \/ ReadEnd
  \/ ReadFails
  \/ JsonResolves
  \/ JsonRejects

Spec == Init /\ [][Next]_vars

-----------------------------------------------------------------------------
(* Two overlapping streaming calls of callOllama, both with an onChunk.     *)
(* The server answers call 1 with fragment records and call 2 with final   *)
(* records, so that text or counts of one call showing in the other are    *)
(* told apart.                                                             *)

\* The longest document a call of SpecPair receives, in lines.
MaxPairRecords == 2

PairLine(c) == IF c = 1 THEN FragA ELSE FinalC
PairDocs(c) == {[i \in 1..n |-> PairLine(c)] : n \in 0..MaxPairRecords}

\* Module-level bindings: one set of consumer locals for all calls.
SharedBindings(c) == 1

\* The bindings a call uses: `let fullResponse`, `let promptTokens`,
\* `let generatedTokens`, reader and decoder are declared inside
\* handleStreamingResponse, controller and timeoutId inside callOllama, so each
\* invocation has its own.
Invocation(c) == c

PairReturn(c, r) ==
  invocation' = [invocation EXCEPT ![c].result = Append(@, r), ![c].pc = "done"]

\* callOllama(prompt, {stream: true, onChunk}) up to `await fetch(...)`.
PairCall(c) ==
  /\ invocation[c].pc = "init"
  /\ invocation' = [invocation EXCEPT ![c].pc = "fetching", ![c].timer = "armed"]
  /\ UNCHANGED <<bindings, alone, exceptPair>>

\* The timer of call c runs its callback: controller.abort() of that call.
PairTimeoutElapses(c) ==
  /\ invocation[c].timer = "armed"
  /\ invocation' = [invocation EXCEPT ![c].timer = "fired", ![c].aborted = TRUE]
  /\ UNCHANGED <<bindings, alone, exceptPair>>

\* The fetch of call c rejects: aborted by its controller, or the network failed.
PairFetchRejects(c) ==
  /\ invocation[c].pc = "fetching"
  /\ IF invocation[c].aborted
     THEN PairReturn(c, Failure(ErrorMessage(AbortError, DEFAULT_TIMEOUT)))
     ELSE \E err \in NetworkErrors :
            PairReturn(c, Failure(ErrorMessage(err, DEFAULT_TIMEOUT)))
  /\ UNCHANGED <<bindings, alone, exceptPair>>

\* The fetch of call c resolves with a 200: clearTimeout, then
\* handleStreamingResponse up to its first read, with fresh locals.
PairFetchResolves(c) ==
  /\ invocation[c].pc = "fetching"
  /\ ~invocation[c].aborted
  /\ \E doc \in PairDocs(c) :
       invocation' = [invocation EXCEPT ![c].pc = "reading", ![c].timer = "cleared",
                                        ![c].document = doc, ![c].wire = Serialize(doc)]
  /\ bindings' = [bindings EXCEPT ![Invocation(c)] = InitialConsumer]
  /\ alone' = [alone EXCEPT ![c] = InitialConsumer]
  /\ UNCHANGED exceptPair

\* reader.read() of call c resolves with a chunk.
PairReadChunk(c) ==
  /\ invocation[c].pc = "reading"
  /\ \E k \in 1..Len(invocation[c].wire) :
       LET w == invocation[c].wire
           chunk == SubSeq(w, 1, k)
       IN /\ invocation' = [invocation EXCEPT ![c].wire = SubSeq(w, k + 1, Len(w))]
          /\ bindings' = [bindings EXCEPT
                            ![Invocation(c)] = ProcessChunk(@, chunk, TRUE)]
          /\ alone' = [alone EXCEPT ![c] = ProcessChunk(@, chunk, TRUE)]
  /\ UNCHANGED exceptPair

\* reader.read() of call c resolves with done: call c returns.
PairReadEnd(c) ==
  /\ invocation[c].pc = "reading"
  /\ invocation[c].wire = <<>>
  /\ LET r == StreamResult(bindings[Invocation(c)])
     IN PairReturn(c, Success(r.response, r.tokens))
  /\ UNCHANGED <<bindings, alone, exceptPair>>

\* reader.read() of call c rejects.
PairReadFails(c) ==
  /\ invocation[c].pc = "reading"
  /\ invocation[c].wire # <<>>
  /\ invocation' = [invocation EXCEPT
                      ![c].result = Append(@, Failure(ErrorMessage(ReadError, DEFAULT_TIMEOUT))),
                      ![c].pc = "done", ![c].wire = <<>>]
  /\ UNCHANGED <<bindings, alone, exceptPair>>

InitPair == Init /\ ~useMock /\ stream /\ hasOnChunk /\ ~onChunkThrows

NextPair ==
  \/ \E c \in Calls : PairCall(c)
  \/ \E c \in Calls : PairTimeoutElapses(c)
  \/ \E c \in Calls : PairFetchRejects(c)
  \/ \E c \in Calls : PairFetchResolves(c)
  \/ \E c \in Calls : PairReadChunk(c)
  \/ \E c \in Calls : PairReadEnd(c)
  \/ \E c \in Calls : PairReadFails(c)

SpecPair == InitPair /\ [][NextPair]_vars

-----------------------------------------------------------------------------

(* extractCode (codeParser.js), on texts as sequences of tokens: a fence   *)
(* ```, a newline, a blank, a script language tag (javascript, js, jsx,    *)
(* typescript or ts) and words.  useOllama.generate applies it to the      *)
(* response accumulated so far at every chunk.                             *)

\* The most chunks of one response.
MaxPieces == 3

FENCE == Tok("fence")
SCRIPT == Tok("javascript")
PYTHON == Tok("python")
PROSE == Tok("prose")
CodeA == Tok("a")
CodeB == Tok("b")
CodeC == Tok("c")

\* What a chunk may add to the response: a fence, a newline, a blank, a tag, a
\* word of prose, or a whole block (tagged as a script, tagged python, untagged).
ScriptBlock == <<FENCE, SCRIPT, NL, CodeA, NL, FENCE>>
PythonBlock == <<FENCE, PYTHON, NL, CodeB, NL, FENCE>>
PlainBlock == <<FENCE, NL, CodeC, NL, FENCE>>
Pieces ==
  {<<FENCE>>, <<NL>>, <<WS>>, <<SCRIPT>>, <<PROSE>>, ScriptBlock, PythonBlock, PlainBlock}

\* String.prototype.trim: blanks and newlines go, at both ends.
RECURSIVE StringTrim(_)
StringTrim(s) ==
  IF s = <<>> THEN <<>>
  ELSE IF s[1] = WS \/ s[1] = NL THEN StringTrim(Tail(s))
  ELSE IF s[Len(s)] = WS \/ s[Len(s)] = NL THEN StringTrim(SubSeq(s, 1, Len(s) - 1))
  ELSE s

\* A greedy ([\s\S]*) group: it ends at the last fence.
LastFence(s, k) ==
  IF \E j \in k..Len(s) : s[j] = FENCE
  THEN CHOOSE j \in k..Len(s) : s[j] = FENCE /\ \A m \in (j+1)..Len(s) : s[m] # FENCE
  ELSE 0

\* ([\s\S]*?)``` from position k: the lazy group ends at the first fence at or
\* after k; 0 when there is none.
ClosingFence(s, k) ==
  IF \E j \in k..Len(s) : s[j] = FENCE
  THEN CHOOSE j \in k..Len(s) : s[j] = FENCE /\ \A m \in k..(j-1) : s[m] # FENCE
  ELSE 0

\* ```(?:javascript|js|jsx|typescript|ts)?\n at position i: where the group
\* starts, 0 when the prefix does not match there.
LangPrefix(s, i) ==
  IF s[i] # FENCE THEN 0
  ELSE IF i + 2 <= Len(s) /\ s[i+1] = SCRIPT /\ s[i+2] = NL THEN i + 3
  ELSE IF i + 1 <= Len(s) /\ s[i+1] = NL THEN i + 2
  ELSE 0

\* ```\n? at position i: where the group starts, 0 when there is no fence.
GenericPrefix(s, i) ==
  IF s[i] # FENCE THEN 0
  ELSE IF i + 1 <= Len(s) /\ s[i+1] = NL THEN i + 2
  ELSE i + 1

\* String.prototype.match for the two patterns: <<>> for null, else <<group 1>>
\* of the leftmost match.
MatchFrom(s, i, start) == start # 0 /\ ClosingFence(s, start) # 0
Group(s, start) == SubSeq(s, start, ClosingFence(s, start) - 1)

CodeBlockWithLang(s) ==
  LET at == {i \in 1..Len(s) : MatchFrom(s, i, LangPrefix(s, i))} IN
    IF at = {} THEN <<>>
    ELSE LET i == CHOOSE i \in at : \A j \in at : i <= j
         IN <<Group(s, LangPrefix(s, i))>>

GenericCodeBlock(s) ==
  LET at == {i \in 1..Len(s) : MatchFrom(s, i, GenericPrefix(s, i))} IN
    IF at = {} THEN <<>>
    ELSE LET i == CHOOSE i \in at : \A j \in at : i <= j
         IN <<Group(s, GenericPrefix(s, i))>>

ExtractCode(response) ==
  IF response = <<>> THEN <<>>
  ELSE IF CodeBlockWithLang(response) # <<>> THEN StringTrim(CodeBlockWithLang(response)[1])
  ELSE IF GenericCodeBlock(response) # <<>> THEN StringTrim(GenericCodeBlock(response)[1])
  ELSE StringTrim(response)

\* The onChunk of useOllama.generate: the chunk is appended and the code
\* extracted from all that has arrived.
ExtractOnChunk ==
  /\ delivered < MaxPieces
  /\ delivered' = delivered + 1
  /\ \E chunk \in Pieces : accumulatedResponse' = accumulatedResponse \o chunk
  /\ code' = ExtractCode(accumulatedResponse')
  /\ UNCHANGED <<callVars, pairVars, uiVars, probeVars>>

InitExtract == Init /\ ~useMock /\ stream /\ hasOnChunk /\ ~onChunkThrows

NextExtract == ExtractOnChunk

SpecExtract == InitExtract /\ [][NextExtract]_vars

-----------------------------------------------------------------------------

(* The page: App, the useOllama hook and GoalInput.  A step is one event   *)
(* handler or one promise continuation together with the render React      *)
(* flushes after it, so the props a step reads are those of the state it   *)
(* starts in.  A request is what callOllama is to the hook: it starts,     *)
(* invokes onChunk some times (never in mock mode, never for sendPrompt,   *)
(* which passes no onChunk), and completes with the result callOllama      *)
(* returns; callOllama never rejects.  null is <<>>, a value that may be   *)
(* null is <<>> or <<value>>.                                              *)

\* The most onChunk callbacks of one request, the most calls of generate and
\* sendPrompt that are followed at a time, and the longest duration reported.
MaxChunks == 2
MaxInFlight == 2
MaxDuration == 1

\* What the textarea may hold: nothing, a blank, a goal, a goal after a blank.
GoalWord == Tok("word")
Goals == {<<>>, <<WS>>, <<GoalWord>>, <<WS, GoalWord>>}

\* The text the k-th onChunk of a request delivers: a line of prose, then a
\* javascript block, then more prose.
Chunk(k) ==
  IF k = 1 THEN <<PROSE, NL>> ELSE IF k = 2 THEN ScriptBlock ELSE <<NL, PROSE>>

\* useOllama.generate: accumulatedResponse after n chunks.
RECURSIVE Accumulated(_)
Accumulated(n) == IF n = 0 THEN <<>> ELSE Accumulated(n - 1) \o Chunk(n)

\* What getMockResponse answers: one javascript block.
MockBlock == <<FENCE, SCRIPT, NL, CodeB, NL, FENCE>>

\* result.response of a call that succeeds: the mock block, the fragments
\* handed to onChunk, or (sendPrompt) a line of prose.
ResponseOf(req) ==
  IF req.useMock THEN MockBlock
  ELSE IF req.kind = "generate" THEN Accumulated(req.chunks)
  ELSE <<PROSE>>

\* Why a request may fail: no connection, or a read error once chunks have come.
FailuresOf(req) ==
  IF req.chunks = 0 THEN {ConnectMessage} ELSE {ErrorMessage(ReadError, DEFAULT_TIMEOUT)}

\* What callOllama may return to the hook for a request: its result object
\* with the duration field.  A mock request succeeds.
ResultsOf(req) ==
  LET timed(r) == {r @@ [duration |-> d] : d \in 1..MaxDuration} IN
    timed(Success(ResponseOf(req),
                  IF req.useMock THEN Tokens(CeilQuarter(14), CeilQuarter(56))
                  ELSE Tokens(1, 2)))
    \cup (IF req.useMock THEN {}
          ELSE UNION {timed(Failure(m)) : m \in FailuresOf(req)})

\* setError('Ollama not available. Run: ollama serve')
NotAvailableMessage == <<"Ollama", "not", "available.", "Run:", "ollama", "serve">>

\* inFlight without its i-th request.
Remove(i) == SubSeq(inFlight, 1, i - 1) \o SubSeq(inFlight, i + 1, Len(inFlight))

\* App: disabled={!isConnected && !useMockMode}
Disabled == ~isConnected /\ ~useMockMode

\* A submit button that stays enabled while a request is loading.
SubmitDisabledUnlessLoading == Trim(goal) = <<>> \/ Disabled

\* GoalInput: disabled={!goal.trim() || isLoading || disabled} on the submit button
SubmitDisabled == Trim(goal) = <<>> \/ isLoading \/ Disabled

\* GoalInput: onChange of the textarea, disabled={disabled || isLoading}
TypeGoal ==
  /\ mountedRef
  /\ ~(Disabled \/ isLoading)
  /\ \E g \in Goals : goal' = g
  /\ UNCHANGED <<mountedRef, isLoading, isChecking, isConnected, useMockMode, streamingCode,
                 inFlight, hookOutputs, checks, returns, exceptUI>>

\* GoalInput: handleExampleSelect and handleRandomExample; the buttons of the
\* examples list have disabled={isLoading}.
PickExample ==
  /\ mountedRef
  /\ ~isLoading
  /\ goal' = <<GoalWord>>
  /\ UNCHANGED <<mountedRef, isLoading, isChecking, isConnected, useMockMode, streamingCode,
                 inFlight, hookOutputs, checks, returns, exceptUI>>

\* GoalInput: handleClear; the button is rendered when goal is not empty,
\* with disabled={isLoading}.
ClearGoal ==
  /\ mountedRef
  /\ goal # <<>>
  /\ ~isLoading
  /\ goal' = <<>>
  /\ UNCHANGED <<mountedRef, isLoading, isChecking, isConnected, useMockMode, streamingCode,
                 inFlight, hookOutputs, checks, returns, exceptUI>>

\* App: toggleMockMode, from either banner.
ToggleMockMode ==
  /\ mountedRef
  /\ useMockMode \/ (~isConnected /\ ~isChecking)
  /\ useMockMode' = ~useMockMode
  /\ UNCHANGED <<mountedRef, isLoading, isChecking, isConnected, goal, streamingCode,
                 inFlight, hookOutputs, checks, returns, exceptUI>>

\* useOllama: checkConnection up to `await isOllamaAvailable()` (the mount
\* effect, the Refresh Status button).  Checks that overlap are followed as
\* one.
CheckConnection ==
  /\ mountedRef
  /\ ~isChecking
  /\ isChecking' = TRUE
  /\ checks' = checks + 1
  /\ UNCHANGED <<mountedRef, isLoading, isConnected, useMockMode, goal, streamingCode,
                 inFlight, hookOutputs, returns, exceptUI>>

\* useOllama: checkConnection after isOllamaAvailable() resolved, and its
\* finally block.
CheckResolves ==
  /\ checks > 0
  /\ checks' = checks - 1
  /\ IF mountedRef
     THEN /\ \E available \in BOOLEAN :
               /\ isConnected' = available
               /\ error' = IF available THEN <<>> ELSE NotAvailableMessage
          /\ isChecking' = FALSE
     ELSE UNCHANGED <<isConnected, error, isChecking>>
  /\ UNCHANGED <<mountedRef, isLoading, useMockMode, goal, streamingCode, inFlight,
                 lastResponse, lastCode, lastDuration, tokens, returns, exceptUI>>

\* A generate that also clears what the previous request left.
GenerateClearsOutput(mock) ==
  /\ Len(inFlight) < MaxInFlight
  /\ IF mountedRef
     THEN /\ isLoading' = TRUE
          /\ error' = <<>>
          /\ streamingCode' = <<>>
          /\ lastCode' = <<>>
          /\ inFlight' = Append(inFlight, [kind |-> "generate", useMock |-> mock, chunks |-> 0])
          /\ UNCHANGED returns
     ELSE /\ returns' = [kind |-> "generate", value |-> <<>>]
          /\ UNCHANGED <<isLoading, error, streamingCode, lastCode, inFlight>>
  /\ UNCHANGED <<mountedRef, isChecking, isConnected, useMockMode, goal, lastResponse,
                 lastDuration, tokens, checks, exceptUI>>

\* useOllama.generate up to `await generateCode(...)`, with options.useMock.
Generate(mock) ==
  /\ Len(inFlight) < MaxInFlight
  /\ IF mountedRef
     THEN /\ isLoading' = TRUE
          /\ error' = <<>>
          /\ streamingCode' = <<>>
          /\ inFlight' = Append(inFlight, [kind |-> "generate", useMock |-> mock, chunks |-> 0])
          /\ UNCHANGED returns
     ELSE /\ returns' = [kind |-> "generate", value |-> <<>>]
          /\ UNCHANGED <<isLoading, error, streamingCode, inFlight>>
  /\ UNCHANGED <<mountedRef, isChecking, isConnected, useMockMode, goal, lastResponse,
                 lastCode, lastDuration, tokens, checks, exceptUI>>

\* A click on the submit button: GoalInput.handleSubmit, App.handleGoalSubmit
\* and useOllama.generate.
SubmitGoal ==
  /\ mountedRef
  /\ ~SubmitDisabled
  /\ Trim(goal) # <<>>
  /\ Generate(useMockMode)

\* An onChunk without the mountedRef guard.
OnChunkUnguarded(i) ==
  /\ inFlight[i].kind = "generate"
  /\ ~inFlight[i].useMock
  /\ inFlight[i].chunks < MaxChunks
  /\ inFlight' = [inFlight EXCEPT ![i].chunks = @ + 1]
  /\ streamingCode' = ExtractCode(Accumulated(inFlight[i].chunks + 1))
  /\ lastResponse' = <<Accumulated(inFlight[i].chunks + 1)>>
  /\ UNCHANGED <<mountedRef, isLoading, isChecking, isConnected, useMockMode, goal,
                 error, lastCode, lastDuration, tokens, checks, returns, exceptUI>>

\* The onChunk that generate passes to generateCode, for request i.
OnChunk(i) ==
  /\ inFlight[i].kind = "generate"
  /\ ~inFlight[i].useMock
  /\ inFlight[i].chunks < MaxChunks
  /\ inFlight' = [inFlight EXCEPT ![i].chunks = @ + 1]
  /\ IF mountedRef
     THEN /\ streamingCode' = ExtractCode(Accumulated(inFlight[i].chunks + 1))
          /\ lastResponse' = <<Accumulated(inFlight[i].chunks + 1)>>
     ELSE UNCHANGED <<streamingCode, lastResponse>>
  /\ UNCHANGED <<mountedRef, isLoading, isChecking, isConnected, useMockMode, goal,
                 error, lastCode, lastDuration, tokens, checks, returns, exceptUI>>

\* A failure branch that leaves what the chunks had put on the page.
GenerateCompletesKeepsPartial(i) ==
  /\ inFlight[i].kind = "generate"
  /\ inFlight' = Remove(i)
  /\ \E r \in ResultsOf(inFlight[i]) :
       IF ~mountedRef
       THEN /\ returns' = [kind |-> "generate", value |-> <<>>]
            /\ UNCHANGED <<isLoading, streamingCode, hookOutputs>>
       ELSE IF r.success
       THEN /\ lastResponse' = <<r.response>>
            /\ lastCode' = <<ExtractCode(r.response)>>
            /\ streamingCode' = ExtractCode(r.response)
            /\ lastDuration' = <<r.duration>>
            /\ tokens' = r.tokens
            /\ error' = <<>>
            /\ isLoading' = FALSE
            /\ returns' = [kind |-> "generate",
                           value |-> <<[success |-> TRUE, code |-> ExtractCode(r.response),
                                        rawResponse |-> r.response, duration |-> r.duration,
                                        tokens |-> r.tokens]>>]
       ELSE /\ error' = r.error
            /\ lastCode' = <<>>
            /\ lastDuration' = <<r.duration>>
            /\ tokens' = Tokens(0, 0)
            /\ isLoading' = FALSE
            /\ returns' = [kind |-> "generate",
                           value |-> <<[success |-> FALSE, code |-> <<>>, error |-> r.error,
                                        duration |-> r.duration, tokens |-> Tokens(0, 0)]>>]
            /\ UNCHANGED <<streamingCode, lastResponse>>
  /\ UNCHANGED <<mountedRef, isChecking, isConnected, useMockMode, goal, checks, exceptUI>>

\* useOllama.generate after `await generateCode(...)` for request i: the
\* unmount guard, the success or the failure branch, then the finally block.
\* The code of a result is <<>> for null.
GenerateCompletes(i) ==
  /\ inFlight[i].kind = "generate"
  /\ inFlight' = Remove(i)
  /\ \E r \in ResultsOf(inFlight[i]) :
       IF ~mountedRef
       THEN /\ returns' = [kind |-> "generate", value |-> <<>>]
            /\ UNCHANGED <<isLoading, streamingCode, hookOutputs>>
       ELSE IF r.success
       THEN /\ lastResponse' = <<r.response>>
            /\ lastCode' = <<ExtractCode(r.response)>>
            /\ streamingCode' = ExtractCode(r.response)
            /\ lastDuration' = <<r.duration>>
            /\ tokens' = r.tokens
            /\ error' = <<>>
            /\ isLoading' = FALSE
            /\ returns' = [kind |-> "generate",
                           value |-> <<[success |-> TRUE, code |-> ExtractCode(r.response),
                                        rawResponse |-> r.response, duration |-> r.duration,
                                        tokens |-> r.tokens]>>]
       ELSE /\ error' = r.error
            /\ lastResponse' = <<>>
            /\ lastCode' = <<>>
            /\ streamingCode' = <<>>
            /\ lastDuration' = <<r.duration>>
            /\ tokens' = Tokens(0, 0)
            /\ isLoading' = FALSE
            /\ returns' = [kind |-> "generate",
                           value |-> <<[success |-> FALSE, code |-> <<>>, error |-> r.error,
                                        duration |-> r.duration, tokens |-> Tokens(0, 0)]>>]
  /\ UNCHANGED <<mountedRef, isChecking, isConnected, useMockMode, goal, checks, exceptUI>>

\* The page is closed: the cleanup of the mount effect.
Unmount ==
  /\ mountedRef
  /\ mountedRef' = FALSE
  /\ UNCHANGED <<isLoading, isChecking, isConnected, useMockMode, goal, streamingCode,
                 inFlight, hookOutputs, checks, returns, exceptUI>>

InitUI == Init /\ ~useMock /\ stream /\ hasOnChunk /\ ~onChunkThrows

NextUI ==
  \/ TypeGoal
  \/ PickExample
  \/ ClearGoal
  \/ ToggleMockMode
  \/ CheckConnection
  \/ CheckResolves
  \/ SubmitGoal
  \/ \E i \in 1..Len(inFlight) : OnChunk(i)
  \/ \E i \in 1..Len(inFlight) : GenerateCompletes(i)
  \/ Unmount

SpecUI == InitUI /\ [][NextUI]_vars

-----------------------------------------------------------------------------

(* The useOllama hook under any component: generate, sendPrompt,            *)
(* checkConnection and reset are called in any order while the component   *)
(* is mounted, generate and sendPrompt after it has unmounted too, and      *)
(* their continuations run whenever their requests complete.                *)

\* useOllama.sendPrompt up to `await callOllama(...)`.
SendPrompt(mock) ==
  /\ Len(inFlight) < MaxInFlight
  /\ IF mountedRef
     THEN /\ isLoading' = TRUE
          /\ error' = <<>>
          /\ inFlight' = Append(inFlight, [kind |-> "sendPrompt", useMock |-> mock, chunks |-> 0])
          /\ UNCHANGED returns
     ELSE /\ returns' = [kind |-> "sendPrompt", value |-> <<>>]
          /\ UNCHANGED <<isLoading, error, inFlight>>
  /\ UNCHANGED <<mountedRef, isChecking, isConnected, useMockMode, goal, streamingCode,
                 lastResponse, lastCode, lastDuration, tokens, checks, exceptUI>>

\* useOllama.sendPrompt after `await callOllama(...)` for request i; it
\* returns the result of callOllama.
SendPromptCompletes(i) ==
  /\ inFlight[i].kind = "sendPrompt"
  /\ inFlight' = Remove(i)
  /\ \E r \in ResultsOf(inFlight[i]) :
       IF ~mountedRef
       THEN /\ returns' = [kind |-> "sendPrompt", value |-> <<>>]
            /\ UNCHANGED <<isLoading, error, lastResponse, lastDuration>>
       ELSE /\ IF r.success
               THEN /\ lastResponse' = <<r.response>>
                    /\ lastDuration' = <<r.duration>>
                    /\ error' = <<>>
               ELSE /\ error' = r.error
                    /\ UNCHANGED <<lastResponse, lastDuration>>
            /\ isLoading' = FALSE
            /\ returns' = [kind |-> "sendPrompt", value |-> <<r>>]
  /\ UNCHANGED <<mountedRef, isChecking, isConnected, useMockMode, goal, streamingCode,
                 lastCode, tokens, checks, exceptUI>>

\* useOllama.reset, from an event handler of the mounted component.
Reset ==
  /\ mountedRef
  /\ error' = <<>>
  /\ lastResponse' = <<>>
  /\ lastCode' = <<>>
  /\ streamingCode' = <<>>
  /\ lastDuration' = <<>>
  /\ tokens' = Tokens(0, 0)
  /\ UNCHANGED <<mountedRef, isLoading, isChecking, isConnected, useMockMode, goal,
                 inFlight, checks, returns, exceptUI>>

InitHook == Init /\ ~useMock /\ stream /\ hasOnChunk /\ ~onChunkThrows

NextHook ==
  \/ CheckConnection
  \/ CheckResolves
  \/ \E mock \in BOOLEAN : Generate(mock)
  \/ \E i \in 1..Len(inFlight) : OnChunk(i)
  \/ \E i \in 1..Len(inFlight) : GenerateCompletes(i)
  \/ \E mock \in BOOLEAN : SendPrompt(mock)
  \/ \E i \in 1..Len(inFlight) : SendPromptCompletes(i)
  \/ Reset
  \/ Unmount

SpecHook == InitHook /\ [][NextHook]_vars

-----------------------------------------------------------------------------

(* The connectivity probe isOllamaAvailable, next to a non-streaming call  *)
(* of callOllama that may be in flight at the same time.                   *)

ProbeReturn(b) == probe' = [probe EXCEPT !.pc = "done", !.result = Append(@, b)]

\* isOllamaAvailable up to `await fetch(.../api/tags, {signal})`.
ProbeStart ==
  /\ probe.pc = "init"
  /\ probe' = [probe EXCEPT !.pc = "fetching"]
  /\ UNCHANGED <<callVars, pairVars, uiVars, parserVars>>

\* AbortSignal.timeout(3000): the signal aborts 3000 ms after the probe began.
ProbeTimeoutElapses ==
  /\ probe.pc \in {"fetching", "done"}
  /\ ~probe.timedOut
  /\ probe' = [probe EXCEPT !.timedOut = TRUE]
  /\ UNCHANGED <<callVars, pairVars, uiVars, parserVars>>

\* fetch rejects, aborted by the signal or because the network failed: catch.
ProbeFetchRejects ==
  /\ probe.pc = "fetching"
  /\ ProbeReturn(FALSE)
  /\ UNCHANGED <<callVars, pairVars, uiVars, parserVars>>

\* A probe that takes any answer for a running server.
ProbeFetchResolvesAnyStatus ==
  /\ probe.pc = "fetching"
  /\ ~probe.timedOut
  /\ \E st \in Statuses :
       probe' = [probe EXCEPT !.pc = "done", !.status = st.status,
                              !.result = Append(@, TRUE)]
  /\ UNCHANGED <<callVars, pairVars, uiVars, parserVars>>

\* fetch resolves with the response headers: return response.ok
ProbeFetchResolves ==
  /\ probe.pc = "fetching"
  /\ ~probe.timedOut
  /\ \E st \in Statuses :
       probe' = [probe EXCEPT !.pc = "done", !.status = st.status,
                              !.result = Append(@, Ok(st))]
  /\ UNCHANGED <<callVars, pairVars, uiVars, parserVars>>

InitProbe == Init /\ ~useMock /\ ~stream /\ ~hasOnChunk

NextProbe ==
  \/ ProbeStart
  \/ ProbeTimeoutElapses
  \/ ProbeFetchRejects
  \/ ProbeFetchResolves
  \/ Call
  \/ TimeoutElapses
  \/ FetchAborted
  \/ FetchFails
  \/ FetchResolves
  \/ JsonResolves
  \/ JsonRejects

SpecProbe == InitProbe /\ [][NextProbe]_vars

-----------------------------------------------------------------------------

(* Vocabulary of the properties.                                           *)

\* The call has returned; TheResult is what it returned.
Returned == result # <<>>
TheResult == result[1]

\* A streaming call returned after reader.read() signalled the end of the body
\* (the status was a success and no read failed).
TransportEnded ==
  /\ ~useMock /\ stream /\ Returned
  /\ status = 200
  /\ TheResult.error # ReadError.message

\* A streaming call returned success.
StreamCompleted == ~useMock /\ stream /\ Returned /\ TheResult.success

\* Every line of the document is a JSON record or blank.
ValidDoc(doc) == \A i \in 1..Len(doc) : doc[i] = BlankLine \/ Parses(doc[i])

\* What the consumer's locals are after the whole document arrived as one chunk.
WholeDocument(doc, cb) == ProcessChunk(InitialConsumer, Serialize(doc), cb)

\* The non-empty response fragments of the document's records, in document order.
RECURSIVE NonEmptyFragments(_)
NonEmptyFragments(doc) ==
  IF doc = <<>> THEN <<>>
  ELSE (IF Parses(doc[1]) /\ TruthyResponse(JSONParse(doc[1]))
        THEN <<Get(JSONParse(doc[1]), "response").s>>
        ELSE <<>>) \o NonEmptyFragments(Tail(doc))

\* The concatenation of a sequence of texts.
RECURSIVE Concat(_)
Concat(texts) == IF texts = <<>> THEN <<>> ELSE texts[1] \o Concat(Tail(texts))

\* The records, of a sequence of parsed records, that have done == true.
DoneIndexes(records) == {i \in 1..Len(records) : TruthyDone(records[i])}
FirstDone(records) == CHOOSE i \in DoneIndexes(records) : \A j \in DoneIndexes(records) : i <= j

\* The non-empty fragments of a sequence of parsed records.
RECURSIVE FragmentsOf(_)
FragmentsOf(records) ==
  IF records = <<>> THEN <<>>
  ELSE (IF TruthyResponse(records[1]) THEN <<Get(records[1], "response").s>> ELSE <<>>)
       \o FragmentsOf(Tail(records))

\* The terminal response of the request is still to come.
TerminalPending ==
  \/ pc = "fetching"
  \/ pc = "json"
  \/ pc = "reading" /\ DoneIndexes(seen) = {}

-----------------------------------------------------------------------------
(* C1  Chunk-split invariance: for a valid NDJSON document, however the    *)
(* transport cuts it into chunks, the text and the token counts returned   *)
(* are those obtained when the whole document arrives as one chunk.        *)
C1_ChunkSplitInvariance ==
  (StreamCompleted /\ ValidDoc(document)) =>
    /\ TheResult.response = WholeDocument(document, hasOnChunk).full
    /\ TheResult.tokens = Tokens(WholeDocument(document, hasOnChunk).pt,
                                 WholeDocument(document, hasOnChunk).gt)

(* C2  Terminal-record authority: when the consumer has parsed more than   *)
(* one record with done == true, the token counts returned are those of    *)
(* the first of them in arrival order.                                     *)
C2_FirstTerminalRecordWins ==
  (StreamCompleted /\ DoneIndexes(seen) # {}) =>
    TheResult.tokens = Tokens(CountOrZero(seen[FirstDone(seen)], "prompt_eval_count"),
                              CountOrZero(seen[FirstDone(seen)], "eval_count"))

(* C3  Consumption stops at the terminal record: once a record with        *)
(* done == true has been processed, the consumer takes in nothing more:    *)
(* the accumulated text and the onChunk arguments are the fragments of the *)
(* records up to and including the first terminal record, whether a later  *)
(* record comes in the same chunk or in a later one.                       *)
C3_StopsAtTerminalRecord ==
  DoneIndexes(seen) # {} =>
    /\ fullResponse = Concat(FragmentsOf(SubSeq(seen, 1, FirstDone(seen))))
    /\ hasOnChunk => calls = FragmentsOf(SubSeq(seen, 1, FirstDone(seen)))

(* C4  The timeout covers the whole request: when `timeout` ms have passed *)
(* and the terminal response has not been received, the request in flight  *)
(* is aborted, and the call then returns the timed-out failure, also when   *)
(* the headers arrived in time and the body stalls.                        *)
C4_TimeoutCoversWholeRequest ==
  [][ (elapsed /\ TerminalPending) =>
        /\ aborted
        /\ Returned' => TheResult' = Failure(TimeoutMessage(DEFAULT_TIMEOUT)) ]_vars

(* C5  No callback after cancellation: once the timeout has fired, or the  *)
(* call has returned its result, onChunk is not invoked again.             *)
C5_NoCallbackAfterCancellation ==
  [][ (timer = "fired" \/ Returned) => calls' = calls ]_vars

\* The timeout fired on a streaming call with a callback, and the call returned.
C5_Witness ==
  /\ stream /\ hasOnChunk /\ timer = "fired" /\ Returned
  /\ TheResult = Failure(TimeoutMessage(DEFAULT_TIMEOUT))

(* C6  Fragment order preservation: for every streamed document and every  *)
(* chunking, the arguments passed to onChunk are the non-empty response    *)
(* fragments of the document, in document order.                           *)
C6_FragmentOrderPreserved ==
  (StreamCompleted /\ hasOnChunk) => calls = NonEmptyFragments(document)

(* C7  End of stream without a terminal record is a normal completion:     *)
(* when the transport signals the end and no record with done == true was  *)
(* seen, the call returns success with the concatenation of all fragments  *)
(* and tokens {0, 0, 0}.                                                   *)
C7_EndWithoutTerminalRecord ==
  (TransportEnded /\ DoneIndexes(seen) = {}) =>
    TheResult = Success(Concat(NonEmptyFragments(document)), Tokens(0, 0))

(* C8  Mode equivalence: the streaming document of one record with         *)
(* fragment X and a terminal record {done, prompt_eval_count: p,           *)
(* eval_count: g} gives the result that the non-streaming body             *)
(* {response: X, prompt_eval_count: p, eval_count: g} gives.               *)
C8_ModeEquivalence ==
  (TransportEnded /\ document = <<FragA, Final12>>) =>
    TheResult = NonStreamResult(<<Resp(<<"a">>), Done(TRUE), Pec(1), Ec(2)>>)

(* C9  HTTP error handling: when the server answers with a non-success     *)
(* status, the call returns a failure whose message contains the status    *)
(* code, the body is never read and onChunk is never invoked.              *)
C9_HttpErrorHandling ==
  (Returned /\ status # 0 /\ ~(status >= 200 /\ status <= 299)) =>
    /\ ~TheResult.success
    /\ Includes(TheResult.error, ToString(status))
    /\ ~bodyUsed
    /\ seen = <<>>
    /\ calls = <<>>

(* C10  No retries: a call with useMock = false issues exactly one POST,   *)
(* whatever its outcome; a failed request is never sent again.             *)
C10_ExactlyOnePost ==
  /\ posts <= 1
  /\ (~useMock /\ pc # "init") => posts = 1
  /\ useMock => posts = 0

\* A call over the network has failed and returned, having sent one request.
C10_Witness == ~useMock /\ Returned /\ ~TheResult.success /\ posts = 1

\* The shape of what callOllama returns.
ResultObject(r) == DOMAIN r = {"success", "response", "error", "tokens"}

(* C11  callOllama never fails past its boundary: whatever the outcome of  *)
(* the network call and of the body's decoding (fetch rejects, the request *)
(* is aborted, the status is no success, the non-streaming body is no      *)
(* JSON, a read fails in the middle of the stream), the promise resolves   *)
(* exactly once, with a result object, and it never rejects.               *)
C11_NeverRejects ==
  /\ pc \in {"init", "fetching", "reading", "json", "done"}
  /\ Len(result) = (IF pc = "done" THEN 1 ELSE 0)
  /\ Returned => ResultObject(TheResult)
  /\ (status # 0 /\ status # 200) => Returned
  /\ (~useMock /\ Returned /\ status = 0) => ~TheResult.success

\* A read failed after part of the stream was consumed, and the call returned.
C11_Witness ==
  /\ Returned /\ stream /\ seen # <<>>
  /\ TheResult = Failure(ReadError.message)

(* C12  Result shape: a result with success = false has response '', an   *)
(* error that is not null and tokens {0, 0, 0}; a result with              *)
(* success = true has error null.                                          *)
C12_ResultShape ==
  Returned =>
    /\ ~TheResult.success =>
         /\ TheResult.response = <<>>
         /\ TheResult.error # <<>>
         /\ TheResult.tokens = Tokens(0, 0)
    /\ TheResult.success => TheResult.error = <<>>

\* A call failed after it had accumulated text and token counts.
C12_Witness ==
  /\ Returned /\ ~TheResult.success
  /\ fullResponse # <<>>
  /\ promptTokens + generatedTokens > 0

(* C13  Mock mode bypasses the network: a call with useMock = true issues  *)
(* no HTTP request, invokes no onChunk, and always returns success = true  *)
(* with error null.                                                        *)
C13_MockBypassesNetwork ==
  useMock =>
    /\ posts = 0
    /\ status = 0
    /\ timer = "none"
    /\ ~bodyUsed
    /\ calls = <<>>
    /\ pc \in {"init", "done"}
    /\ Returned => (TheResult.success /\ TheResult.error = <<>>)

\* A mock call that asked for streaming with a callback has returned.
C13_Witness == useMock /\ stream /\ hasOnChunk /\ Returned

\* The server reported token counts: a record of the body with done == true
\* (the one object of a non-streaming body, whatever its done) carries a count.
ReportsCounts(json) == Has(json, "prompt_eval_count") \/ Has(json, "eval_count")
ServerReported ==
  \E i \in 1..Len(document) :
    /\ Parses(document[i])
    /\ ReportsCounts(JSONParse(document[i]))
    /\ stream => TruthyDone(JSONParse(document[i]))

\* C14 as the specification states it: a mock result and a failed result have
\* tokens {0, 0, 0}.
C14_MockAndFailureTokensZero ==
  (Returned /\ (useMock \/ ~TheResult.success)) => TheResult.tokens = Tokens(0, 0)

(* C14  Token counts are all zero whenever the server did not report them  *)
(* and on every failed result; a result produced in mock mode carries      *)
(* estimates instead (a quarter of the prompt's and of the mock code's     *)
(* length, rounded up), so its generated and total counts are never zero.  *)
C14_TokensZeroOrEstimated ==
  Returned =>
    /\ ~TheResult.success => TheResult.tokens = Tokens(0, 0)
    /\ (~useMock /\ ~ServerReported) => TheResult.tokens = Tokens(0, 0)
    /\ useMock =>
         /\ TheResult.tokens.generated >= 14
         /\ TheResult.tokens.total = TheResult.tokens.prompt + TheResult.tokens.generated
         /\ \E prompt \in Prompts :
              /\ 4 * TheResult.tokens.prompt >= prompt.length
              /\ 4 * TheResult.tokens.prompt < prompt.length + 4

\* A mock call for a prompt that is not empty returned its estimates.
C14_Witness ==
  /\ useMock /\ Returned
  /\ TheResult.tokens.prompt > 0
  /\ TheResult.tokens.generated > 0

(* C15  Network-layer failure mapping: whenever the fetch fails at the     *)
(* network layer, the call returns success = false with the message        *)
(* 'Cannot connect to Ollama. Is it running? Try: ollama serve', and with  *)
(* neither the timeout message nor the message of the exception.           *)
C15_NetworkFailureMapping ==
  [][(pc = "fetching" /\ ~aborted /\ Returned' /\ status' = 0) =>
       TheResult' = Failure(ConnectMessage)]_vars

\* A line that is blank or that JSON.parse rejects, and the document without them.
Noise(line) == Trim(line) = <<>> \/ ~Parses(line)
Denoise(doc) == SelectSeq(doc, LAMBDA line : ~Noise(line))

(* C16  Noise tolerance: a blank line or a line that is no JSON adds       *)
(* nothing to the text or the tokens, raises no error and does not change  *)
(* how the other records are processed: a stream with such lines between   *)
(* its records returns success = true with the concatenation of the valid  *)
(* fragments, and the tokens of the stream without those lines.            *)
C16_NoiseTolerance ==
  (TransportEnded /\ \E i \in 1..Len(document) : Noise(document[i])) =>
    /\ TheResult.success
    /\ TheResult.response = Concat(NonEmptyFragments(document))
    /\ TheResult.tokens = StreamResult(WholeDocument(Denoise(document), hasOnChunk)).tokens
    /\ calls = WholeDocument(Denoise(document), hasOnChunk).calls

\* The last record with done == true that the consumer parsed.
LastDone(records) == CHOOSE i \in DoneIndexes(records) : \A j \in DoneIndexes(records) : j <= i

(* C17  Token counts on records that are not terminal are ignored: the     *)
(* tokens a streaming call returns are those of a record with done == true *)
(* (zero when there is none), whatever prompt_eval_count or eval_count the *)
(* other records carry.                                                    *)
C17_NonTerminalCountsIgnored ==
  StreamCompleted =>
    /\ \/ TheResult.tokens = Tokens(0, 0)
       \/ \E i \in DoneIndexes(seen) : TheResult.tokens = NonStreamTokens(seen[i])
    /\ ~onChunkThrows =>
         TheResult.tokens =
           IF DoneIndexes(seen) = {} THEN Tokens(0, 0)
           ELSE NonStreamTokens(seen[LastDone(seen)])

\* The consumer parsed a record that is not terminal and carries a count, and
\* the call returned other counts than that record's.
C17_Witness ==
  /\ StreamCompleted
  /\ \E i \in 1..Len(seen) :
       /\ ~TruthyDone(seen[i])
       /\ ReportsCounts(seen[i])
       /\ TheResult.tokens # NonStreamTokens(seen[i])

(* C18  Callbacks are synchronous with arrival: the onChunk invocations    *)
(* for the records of a transport chunk all happen in the loop pass that   *)
(* read the chunk, before the next chunk is requested, one per non-empty   *)
(* fragment and in the chunk's order; each receives the new fragment only, *)
(* not the accumulated text; no other step invokes onChunk.                *)
C18_CallbacksSynchronous ==
  [][IF pc = "reading" /\ pc' = "reading" /\ hasOnChunk
     THEN calls' = calls \o
            NonEmptyFragments(Split(SubSeq(wire, 1, Len(wire) - Len(wire'))))
     ELSE calls' = calls]_vars

\* Two callbacks were made, the second with less than the accumulated text,
\* and the next chunk is still to be read.
C18_Witness ==
  /\ hasOnChunk /\ pc = "reading" /\ wire # <<>>
  /\ Len(calls) = 2
  /\ fullResponse = calls[1] \o calls[2]
  /\ calls[2] # fullResponse

(* C19  Concurrent calls are independent: under every interleaving of the  *)
(* chunk arrivals of two overlapping streaming calls, the text, tokens and *)
(* onChunk sequence of each call are those of the same call running alone  *)
(* on the same chunks; a call is timed out by its own timer only.          *)
C19_ConcurrentCallsIndependent ==
  \A c \in Calls :
    LET mine == bindings[Invocation(c)] IN
    /\ invocation[c].pc = "reading" => mine = alone[c]
    /\ invocation[c].pc = "done" =>
         /\ Len(invocation[c].result) = 1
         /\ invocation[c].result[1].success =>
              /\ invocation[c].result[1] =
                   Success(alone[c].full, Tokens(alone[c].pt, alone[c].gt))
              /\ mine.calls = alone[c].calls
              /\ mine.calls \in Seq({PairLine(c)[2].s})
         /\ invocation[c].result[1].error = TimeoutMessage(DEFAULT_TIMEOUT) =>
              invocation[c].timer = "fired"

\* Both calls are in the middle of their streams, each with text of its own.
C19_Witness ==
  /\ \A c \in Calls :
       /\ invocation[c].pc = "reading"
       /\ invocation[c].wire # <<>>
       /\ bindings[Invocation(c)].full # <<>>
  /\ bindings[Invocation(1)].full # bindings[Invocation(2)].full

JsonDecoded == ~useMock /\ ~stream /\ Returned /\ status = 200 /\ document # <<>>
TheBody == JSONParse(document[1])

(* C23  Non-streaming decoding: with stream = false and a success status   *)
(* the body is parsed as one JSON document; the result is a success whose  *)
(* text is the document's response field and whose tokens are              *)
(* {prompt_eval_count or 0, eval_count or 0, their sum}: a missing count   *)
(* is 0 and is no failure.                                                 *)
C23_NonStreamingDecoding ==
  (JsonDecoded /\ Has(TheBody, "response")) =>
    LET p == IF Has(TheBody, "prompt_eval_count")
             THEN Get(TheBody, "prompt_eval_count").n ELSE 0
        g == IF Has(TheBody, "eval_count") THEN Get(TheBody, "eval_count").n ELSE 0
    IN /\ TheResult.success
       /\ TheResult.error = <<>>
       /\ TheResult.response = Get(TheBody, "response").s
       /\ TheResult.tokens = [prompt |-> p, generated |-> g, total |-> p + g]
       /\ seen = <<>>
       /\ calls = <<>>

\* A body with a prompt_eval_count and no eval_count was decoded.
C23_Witness ==
  /\ JsonDecoded
  /\ Has(TheBody, "response")
  /\ Has(TheBody, "prompt_eval_count") /\ ~Has(TheBody, "eval_count")
  /\ TheResult.success
  /\ TheResult.tokens.prompt > 0

(* C25  Token total: in every result callOllama returns, on the streaming, *)
(* the non-streaming, the mock and the failure path, tokens.total is       *)
(* tokens.prompt + tokens.generated and none of the three is negative.     *)
C25_TokenTotal ==
  Returned =>
    /\ TheResult.tokens.total = TheResult.tokens.prompt + TheResult.tokens.generated
    /\ TheResult.tokens.prompt >= 0
    /\ TheResult.tokens.generated >= 0
    /\ TheResult.tokens.total >= 0

\* A streaming call returned the two counts of a final record.
C25_Witness ==
  /\ StreamCompleted
  /\ TheResult.tokens.prompt > 0
  /\ TheResult.tokens.generated > 0

(* C26  A failing callback does not corrupt the stream result: when        *)
(* onChunk throws for a record, the call still returns success = true, the *)
(* fragment of that record is part of the returned text, and the token     *)
(* counts of a done == true carried by that same record are captured.      *)
C26_FailingCallbackHarmless ==
  (TransportEnded /\ hasOnChunk /\ onChunkThrows) =>
    /\ TheResult.success
    /\ TheResult.response = Concat(FragmentsOf(seen))
    /\ DoneIndexes(seen) # {} => TheResult.tokens = NonStreamTokens(seen[LastDone(seen)])

\* The fenced blocks of a text, read as markdown: a fence opens a block, the
\* next fence closes it, the one after opens the next block.  A block is the
\* pair of the positions of its two fences.
RECURSIVE BlocksFrom(_, _)
BlocksFrom(s, k) ==
  LET open == ClosingFence(s, k) IN
    IF open = 0 THEN <<>>
    ELSE LET close == ClosingFence(s, open + 1) IN
           IF close = 0 THEN <<>>
           ELSE <<<<open, close>>>> \o BlocksFrom(s, close + 1)
Blocks(s) == BlocksFrom(s, 1)

\* The first line of a block is a language tag.
TaggedWith(s, b, tag) == b[1] + 2 <= b[2] /\ s[b[1] + 1] = tag /\ s[b[1] + 2] = NL
Tagged(s, b) == b[1] + 2 <= b[2] /\ s[b[1] + 1] \notin {NL, WS} /\ s[b[1] + 2] = NL

\* The trimmed content of a block, without its language tag.
Content(s, b) ==
  StringTrim(SubSeq(s, (IF Tagged(s, b) THEN b[1] + 2 ELSE b[1] + 1), b[2] - 1))

(* C21  extractCode returns the trimmed content of the first fenced block  *)
(* of its input (a block tagged as a script is preferred to an untagged    *)
(* one) and the trimmed input when there is no fenced block; when the      *)
(* first block carries another language tag and a block tagged as a script *)
(* follows, the result is the content of a block of the input, never the   *)
(* text between two blocks.                                                *)
C21_FirstFencedBlock ==
  LET s == accumulatedResponse
      blocks == Blocks(s)
  IN /\ blocks = <<>> => code = StringTrim(s)
     /\ (/\ Len(blocks) >= 2
         /\ Tagged(s, blocks[1]) /\ ~TaggedWith(s, blocks[1], SCRIPT)
         /\ \E n \in 2..Len(blocks) : TaggedWith(s, blocks[n], SCRIPT))
        => \E n \in 1..Len(blocks) :
             code \in {Content(s, blocks[n]),
                       StringTrim(SubSeq(s, blocks[n][1] + 1, blocks[n][2] - 1))}

(* C22  extractCode is idempotent: for every text s,                       *)
(* extractCode(extractCode(s)) = extractCode(s).                           *)
C22_ExtractIdempotent ==
  /\ code = ExtractCode(accumulatedResponse)
  /\ ExtractCode(code) = code

\* The code of a block was extracted from a response that holds two blocks and
\* prose, and extracting again gives that code.
C22_Witness ==
  /\ Len(Blocks(accumulatedResponse)) = 2
  /\ \E i \in 1..Len(accumulatedResponse) : accumulatedResponse[i] = PROSE
  /\ code = <<CodeA>>
  /\ ExtractCode(code) = <<CodeA>>

(* C24  The connectivity probe always resolves to a boolean and never      *)
(* rejects: true exactly when GET /api/tags answered with a success status *)
(* before the probe's timeout, false on any other status, on a network     *)
(* failure and on a timeout; it sends no generation request, and its       *)
(* outcome is the same whatever a generation request in flight does.       *)
C24_ProbeResolvesBoolean ==
  /\ probe.pc \in {"init", "fetching", "done"}
  /\ Len(probe.result) = (IF probe.pc = "done" THEN 1 ELSE 0)
  /\ probe.pc = "done" =>
       /\ probe.result[1] \in BOOLEAN
       /\ probe.result[1] <=> (probe.status >= 200 /\ probe.status <= 299)
  /\ probe.pc # "done" => probe.status = 0
  /\ posts = (IF pc = "init" THEN 0 ELSE 1)

\* The probe returned true while a generation request was failing.
C24_Witness ==
  /\ probe.pc = "done" /\ probe.result = <<TRUE>>
  /\ Returned /\ ~TheResult.success

\* The last generate call to return failed, and no generate has started since.
GenerateFailed ==
  /\ inFlight = <<>>
  /\ returns.kind = "generate"
  /\ returns.value # <<>>
  /\ ~returns.value[1].success

(* C27  Connection checks do not disturb the error of a generation         *)
(* request: once a generate call has failed, error stays that call's       *)
(* message until the next generate, and the hook never holds the code of a *)
(* generation together with a non-null error.                              *)
C27_ErrorUndisturbed ==
  mountedRef =>
    /\ GenerateFailed => error = returns.value[1].error
    /\ lastCode # <<>> => error = <<>>

(* C28  Starting a generation changes only isLoading (to true), error (to  *)
(* null) and streamingCode (to ''); lastResponse keeps its value until a   *)
(* chunk arrives or the request completes, and lastCode, lastDuration and  *)
(* tokens keep theirs until the request completes.                         *)
C28_StartKeepsPreviousOutput ==
  [][/\ (mountedRef /\ Len(inFlight') > Len(inFlight)) =>
          /\ isLoading' /\ error' = <<>> /\ streamingCode' = <<>>
          /\ UNCHANGED <<lastResponse, lastCode, lastDuration, tokens, isConnected,
                         isChecking>>
     /\ inFlight' = inFlight => UNCHANGED lastResponse
     /\ Len(inFlight') >= Len(inFlight) => UNCHANGED <<lastCode, lastDuration, tokens>>]_vars

\* A second request has started and the page still holds the first one's output.
C28_Witness ==
  /\ mountedRef /\ isLoading
  /\ Len(inFlight) = 1 /\ inFlight[1].chunks = 0
  /\ streamingCode = <<>>
  /\ lastCode = <<<<CodeA>>>>
  /\ lastResponse = <<Accumulated(MaxChunks)>>
  /\ lastDuration # <<>>
  /\ tokens = Tokens(1, 2)

(* C29  Unmount guard: once the component has unmounted, no continuation   *)
(* of a generate, sendPrompt or checkConnection call (a chunk callback, a  *)
(* completion, a failure, a finally block) changes any state of the hook,  *)
(* and a generate or sendPrompt call that ends then returns null.          *)
C29_UnmountGuard ==
  [][~mountedRef =>
       /\ UNCHANGED <<isLoading, isChecking, isConnected, streamingCode, hookOutputs>>
       /\ Len(inFlight') < Len(inFlight) => returns'.value = <<>>]_vars

\* A request that had delivered a chunk and a check both ended after the unmount.
C29_Witness ==
  /\ ~mountedRef
  /\ isLoading /\ inFlight = <<>>
  /\ isChecking /\ checks = 0
  /\ streamingCode # <<>>
  /\ returns = [kind |-> "generate", value |-> <<>>]

(* C30  A failed generation leaves no partial output: when generate        *)
(* completes with a failure while mounted, whatever chunks were delivered, *)
(* streamingCode is '', lastResponse and lastCode are null, tokens are     *)
(* zero, error is the failure message and isLoading is false.              *)
C30_FailureLeavesNoPartialOutput ==
  [][(/\ mountedRef
      /\ Len(inFlight') < Len(inFlight)
      /\ returns'.kind = "generate"
      /\ returns'.value # <<>>
      /\ ~returns'.value[1].success) =>
       /\ streamingCode' = <<>>
       /\ lastResponse' = <<>>
       /\ lastCode' = <<>>
       /\ tokens' = Tokens(0, 0)
       /\ error' = returns'.value[1].error
       /\ error' # <<>>
       /\ ~isLoading']_vars

\* A generation failed on a read error after chunks had been shown.
C30_Witness ==
  /\ mountedRef /\ ~isLoading
  /\ inFlight = <<>>
  /\ returns.kind = "generate" /\ returns.value # <<>>
  /\ error = ErrorMessage(ReadError, DEFAULT_TIMEOUT)
  /\ streamingCode = <<>> /\ lastResponse = <<>> /\ lastCode = <<>>

====
